---------------------------- MODULE Spec2Model ----------------------------
(***************************************************************************)
(* A model of the Mycelia Python API (src/mycelia): the command objects,   *)
(* the frame encoder _encode_mycelia_obj, and the MyceliaListener accept   *)
(* and read loops with their stop() call.                                  *)
(*                                                                         *)
(* Data representation.  A Python str and a Python bytes value are both    *)
(* held run-length encoded: a sequence of runs [v |-> x, n |-> k], k >= 1, *)
(* standing for k copies of the code point (str) or byte (bytes) x, where  *)
(* adjacent runs always differ in v.  Two values are equal exactly when    *)
(* their run sequences are equal, and a field of 65536 bytes is one run.   *)
(* A Python int that is a length is unbounded; it is held as two base-2^16 *)
(* limbs [hi, lo] because the integers of TLC are 32 bits wide.            *)
(***************************************************************************)
EXTENDS Integers, Sequences, FiniteSets, TLC

VARIABLES
    ctor_err,     \* the exception the constructor call raised, or "none"
    obj,          \* the command object (its attributes), as the caller holds it
    sets,         \* number of attribute assignments the caller has made
    calls,        \* the _encode_mycelia_obj(obj) calls made so far, with results
    gv,           \* <<p>> when the constructor called was Globals(_, p), else <<>>
    snd,          \* the send(obj, address, port) call: where it is and what it did
    rx,           \* the recv_exact(sock, n) call: its locals and its socket's stream
    \* ---- MyceliaListener and the thread running start() ----
    processor,    \* the message_processor given to __init__: "echo" or "none"
    stop_event,   \* self._stop_event.is_set()
    server_sock,  \* self._server_sock: "None", or the socket "open" / "closed"
    lpc,          \* where the thread that called start() is
    exc,          \* the exception that left start(), or "none"
    starts,       \* number of start() calls made
    conn,         \* the connection accept() returned (0: none)
    result,       \* the processor's return value that sendall is about to write
    processed,    \* every call of the message processor: [conn, data]
    \* ---- the thread calling stop() ----
    spc,          \* where the thread that calls stop() is
    stops,        \* number of stop() calls that have returned
    stop_in_accept, \* history: a stop() call began while start() waited in accept
    \* ---- clients and the network ----
    backlog,      \* connections established and not yet accepted, in order
    cstate,       \* per connection: "new", "queued", "accepted", "dropped"
    sent,         \* per connection: the writes (sendall) of the client, in order
    wire,         \* per connection: bytes written and not yet read by recv
    peer_closed,  \* per connection: the client has closed its end
    rst,          \* per connection: the connection has failed (reset)
    echoed        \* per connection: bytes the listener has written back

encVars == <<ctor_err, obj, sets, calls, gv, snd, rx>>

lisVars == <<processor, stop_event, server_sock, lpc, exc, starts, conn, result,
             processed, spc, stops, stop_in_accept>>

netVars == <<backlog, cstate, sent, wire, peer_closed, rst, echoed>>

-----------------------------------------------------------------------------
(* Program constants, src/mycelia/__main__.py:29-43 *)
OBJ_MESSAGE == 1
OBJ_TRANSFORMER == 2
OBJ_SUBSCRIBER == 3
OBJ_GLOBALS == 20
OBJ_ACTION == 50

CMD_UNKNOWN == 0
CMD_SEND == 1
CMD_ADD == 2
CMD_REMOVE == 3
CMD_UPDATE == 20
CMD_SIGTERM == 50

API_PROTOCOL_VER == 1

-----------------------------------------------------------------------------
(* Python ints used as lengths: value = hi * 2^16 + lo *)
Limb == 256 * 256

Num(k) == [hi |-> k \div Limb, lo |-> k % Limb]

NumAdd(a, b) ==
    LET s == a.lo + b.lo
    IN  [hi |-> a.hi + b.hi + (s \div Limb), lo |-> s % Limb]

NumLeq(a, b) == a.hi < b.hi \/ (a.hi = b.hi /\ a.lo <= b.lo)

\* the value of a, for an a below 2^31
NumInt(a) == a.hi * Limb + a.lo

-----------------------------------------------------------------------------
(* Run-length encoded str / bytes values *)
Rep(x, k) == IF k = 0 THEN <<>> ELSE <<[v |-> x, n |-> k]>>

\* a + b for two str or two bytes values
Cat(a, b) ==
    IF a = <<>> THEN b
    ELSE IF b = <<>> THEN a
    ELSE IF a[Len(a)].v = b[1].v
         THEN SubSeq(a, 1, Len(a) - 1)
              \o <<[v |-> b[1].v, n |-> a[Len(a)].n + b[1].n]>>
              \o Tail(b)
         ELSE a \o b

\* The operators over runs below split their argument in halves, so that the
\* depth of the evaluation grows with the logarithm of the number of runs.
Left(b) == SubSeq(b, 1, Len(b) \div 2)

Right(b) == SubSeq(b, (Len(b) \div 2) + 1, Len(b))

RECURSIVE FromSeq(_)
\* the value whose items are the elements of the sequence q, in order
FromSeq(q) ==
    IF q = <<>> THEN <<>>
    ELSE IF Len(q) = 1 THEN Rep(q[1], 1)
    ELSE Cat(FromSeq(Left(q)), FromSeq(Right(q)))

RECURSIVE len(_)
\* len(b): the number of items of b
len(b) ==
    IF b = <<>> THEN Num(0)
    ELSE IF Len(b) = 1 THEN Num(b[1].n)
    ELSE NumAdd(len(Left(b)), len(Right(b)))

RECURSIVE Take(_, _)
\* b[:k]
Take(b, k) ==
    IF k = 0 \/ b = <<>> THEN <<>>
    ELSE IF Len(b) = 1 THEN (IF b[1].n >= k THEN Rep(b[1].v, k) ELSE b)
    ELSE LET l == len(Left(b))
         IN  IF NumLeq(Num(k), l) THEN Take(Left(b), k)
             ELSE Left(b) \o Take(Right(b), k - NumInt(l))

RECURSIVE Drop(_, _)
\* b[k:]
Drop(b, k) ==
    IF k = 0 \/ b = <<>> THEN b
    ELSE IF Len(b) = 1 THEN (IF b[1].n > k THEN Rep(b[1].v, b[1].n - k) ELSE <<>>)
    ELSE LET l == len(Left(b))
         IN  IF NumLeq(Num(k), l) THEN Drop(Left(b), k) \o Right(b)
             ELSE Drop(Right(b), k - NumInt(l))

RECURSIVE RepSeq(_, _)
\* k copies of the sequence q of items, one after the other
RepSeq(q, k) ==
    IF k = 0 THEN <<>>
    ELSE IF k = 1 THEN FromSeq(q)
    ELSE Cat(RepSeq(q, k \div 2), RepSeq(q, k - (k \div 2)))

-----------------------------------------------------------------------------
(* str.encode('utf-8'), for code points below the surrogate range *)
Utf8Char(c) ==
    IF c < 128 THEN <<c>>
    ELSE IF c < 2048 THEN <<192 + (c \div 64), 128 + (c % 64)>>
    ELSE <<224 + (c \div 4096), 128 + ((c \div 64) % 64), 128 + (c % 64)>>

RECURSIVE encode(_)
encode(s) ==
    IF s = <<>> THEN <<>>
    ELSE IF Len(s) = 1
         THEN (IF s[1].v < 128 THEN s ELSE RepSeq(Utf8Char(s[1].v), s[1].n))
    ELSE Cat(encode(Left(s)), encode(Right(s)))

-----------------------------------------------------------------------------
(* struct.pack of an int masked to its width, big-endian *)
_u8(k) == Rep(k.lo % 256, 1)

_u16(k) == Cat(Rep(k.lo \div 256, 1), Rep(k.lo % 256, 1))

_u32(k) ==
    Cat(Cat(Rep((k.hi % Limb) \div 256, 1), Rep(k.hi % 256, 1)),
        Cat(Rep(k.lo \div 256, 1), Rep(k.lo % 256, 1)))

_pstr8(s) == Cat(_u8(len(encode(s))), encode(s))

_pstr16(s) == Cat(_u16(len(encode(s))), encode(s))

_pbytes16(b) == Cat(_u16(len(b)), b)

-----------------------------------------------------------------------------
(* Command objects: class _MyceliaObj and its subclasses *)

\* a payload value: a str, or a bytes-like value (bytes, bytearray, memoryview)
PStr(s) == [kind |-> "str", val |-> s]

PBytes(b) == [kind |-> "bytes", val |-> b]

_MyceliaObj(obj_type) ==
    [protocol_version |-> API_PROTOCOL_VER,
     obj_type |-> obj_type,
     cmd_type |-> CMD_UNKNOWN,
     return_address |-> <<>>,
     arg1 |-> <<>>, arg2 |-> <<>>, arg3 |-> <<>>, arg4 |-> <<>>,
     payload |-> PStr(<<>>)]

Message(return_address, route, payload) ==
    [_MyceliaObj(OBJ_MESSAGE) EXCEPT
        !.cmd_type = CMD_SEND,
        !.return_address = return_address,
        !.arg1 = route,
        !.payload = payload]

Transformer(return_address, route, channel, address) ==
    [_MyceliaObj(OBJ_TRANSFORMER) EXCEPT
        !.cmd_type = CMD_ADD,
        !.return_address = return_address,
        !.arg1 = route,
        !.arg2 = channel,
        !.arg3 = address]

Subscriber(return_address, route, channel, address) ==
    [_MyceliaObj(OBJ_SUBSCRIBER) EXCEPT
        !.cmd_type = CMD_ADD,
        !.return_address = return_address,
        !.arg1 = route,
        !.arg2 = channel,
        !.arg3 = address]

\* an Action constructor that presets cmd_type to SIGTERM
Action_sigterm(return_address) ==
    [_MyceliaObj(OBJ_ACTION) EXCEPT
        !.cmd_type = CMD_SIGTERM,
        !.return_address = return_address]

Action(return_address) ==
    [_MyceliaObj(OBJ_ACTION) EXCEPT
        !.cmd_type = CMD_UNKNOWN,
        !.return_address = return_address]

\* the cmd_valid property of the object's class (each class fixes obj_type)
\* a check of the command that lets an Action through with cmd_type UNKNOWN
cmd_valid_lax(o) ==
    CASE o.obj_type = OBJ_MESSAGE -> o.cmd_type = CMD_SEND
      [] o.obj_type = OBJ_TRANSFORMER -> o.cmd_type \in {CMD_ADD, CMD_REMOVE}
      [] o.obj_type = OBJ_SUBSCRIBER -> o.cmd_type \in {CMD_ADD, CMD_REMOVE}
      [] o.obj_type = OBJ_GLOBALS -> o.cmd_type = CMD_UPDATE
      [] o.obj_type = OBJ_ACTION -> o.cmd_type \in {CMD_SIGTERM, CMD_UNKNOWN}

cmd_valid(o) ==
    CASE o.obj_type = OBJ_MESSAGE -> o.cmd_type = CMD_SEND
      [] o.obj_type = OBJ_TRANSFORMER -> o.cmd_type \in {CMD_ADD, CMD_REMOVE}
      [] o.obj_type = OBJ_SUBSCRIBER -> o.cmd_type \in {CMD_ADD, CMD_REMOVE}
      [] o.obj_type = OBJ_GLOBALS -> o.cmd_type = CMD_UPDATE
      [] o.obj_type = OBJ_ACTION -> o.cmd_type \in {CMD_SIGTERM}

-----------------------------------------------------------------------------
(* json.dumps of the dict that Globals.__init__ builds *)
Hex(d) == IF d < 10 THEN 48 + d ELSE 87 + d

\* the text json.dumps writes for one character of a string (ensure_ascii)
JsonEscape(c) ==
    CASE c = 34 -> <<92, 34>>
      [] c = 92 -> <<92, 92>>
      [] c = 10 -> <<92, 110>>
      [] c = 13 -> <<92, 114>>
      [] c = 9 -> <<92, 116>>
      [] c = 8 -> <<92, 98>>
      [] c = 12 -> <<92, 102>>
      [] OTHER -> IF c >= 32 /\ c <= 126 THEN <<c>>
                  ELSE <<92, 117, Hex(c \div 4096), Hex((c \div 256) % 16),
                         Hex((c \div 16) % 16), Hex(c % 16)>>

RECURSIVE JsonChars(_)
JsonChars(s) ==
    IF s = <<>> THEN <<>>
    ELSE IF Len(s) = 1
         THEN (IF Len(JsonEscape(s[1].v)) = 1 THEN s
               ELSE RepSeq(JsonEscape(s[1].v), s[1].n))
    ELSE Cat(JsonChars(Left(s)), JsonChars(Right(s)))

JsonStr(s) == Cat(Cat(Rep(34, 1), JsonChars(s)), Rep(34, 1))

RECURSIVE JsonInt(_)
\* decimal digits of an int >= 0
JsonInt(i) ==
    IF i < 10 THEN Rep(48 + i, 1) ELSE Cat(JsonInt(i \div 10), Rep(48 + (i % 10), 1))

JsonValue(x) ==
    CASE x.t = "str" -> JsonStr(x.s)
      [] x.t = "int" -> JsonInt(x.i)
      [] x.t = "bool" -> IF x.b THEN FromSeq(<<116, 114, 117, 101>>)
                         ELSE FromSeq(<<102, 97, 108, 115, 101>>)

RECURSIVE JsonItems(_)
\* "key": value, "key": value, ...
JsonItems(d) ==
    IF d = <<>> THEN <<>>
    ELSE Cat(Cat(Cat(JsonStr(FromSeq(Head(d).key)), FromSeq(<<58, 32>>)),
                 JsonValue(Head(d).value)),
             IF Tail(d) = <<>> THEN <<>>
             ELSE Cat(FromSeq(<<44, 32>>), JsonItems(Tail(d))))

\* json.dumps(data) for a dict held as its items in insertion order
dumps(d) == Cat(Cat(Rep(123, 1), JsonItems(d)), Rep(125, 1))

-----------------------------------------------------------------------------
(* class GlobalValues and Globals.__init__ *)
KeyAddress == <<97, 100, 100, 114, 101, 115, 115>>
KeyPort == <<112, 111, 114, 116>>
KeyVerbosity == <<118, 101, 114, 98, 111, 115, 105, 116, 121>>
KeyPrintTree == <<112, 114, 105, 110, 116, 95, 116, 114, 101, 101>>
KeyTransformTimeout ==
    <<116, 114, 97, 110, 115, 102, 111, 114, 109, 95, 116, 105, 109, 101, 111, 117, 116>>
KeyConsolidate == <<99, 111, 110, 115, 111, 108, 105, 100, 97, 116, 101>>
KeySecurityToken ==
    <<115, 101, 99, 117, 114, 105, 116, 121, 45, 116, 111, 107, 101, 110>>

\* the defaults of a fresh GlobalValues(); an Optional[bool] is "None", "True" or "False"
GlobalValues ==
    [address |-> <<>>, port |-> -1, verbosity |-> -1, print_tree |-> "None",
     transform_timeout |-> <<>>, consolidate |-> "None", security_token |-> <<>>]

Item(k, x) == [key |-> k, value |-> x]

\* the dict `data` after the six optional fields (lines 182-194)
GlobalsData(p) ==
    (IF p.address # <<>> THEN <<Item(KeyAddress, [t |-> "str", s |-> p.address])>>
     ELSE <<>>)
    \o (IF 0 < p.port /\ p.port < 65536
        THEN <<Item(KeyPort, [t |-> "int", i |-> p.port])>> ELSE <<>>)
    \o (IF -1 < p.verbosity /\ p.verbosity < 4
        THEN <<Item(KeyVerbosity, [t |-> "int", i |-> p.verbosity])>> ELSE <<>>)
    \o (IF p.print_tree \in {"True", "False"}
        THEN <<Item(KeyPrintTree, [t |-> "bool", b |-> p.print_tree = "True"])>>
        ELSE <<>>)
    \o (IF p.transform_timeout # <<>>
        THEN <<Item(KeyTransformTimeout, [t |-> "str", s |-> p.transform_timeout])>>
        ELSE <<>>)
    \o (IF p.consolidate \in {"True", "False"}
        THEN <<Item(KeyConsolidate, [t |-> "bool", b |-> p.consolidate = "True"])>>
        ELSE <<>>)

\* a Globals constructor that leaves the token out when it is empty
Globals_token_optional(return_address, p) ==
    LET o0 == [_MyceliaObj(OBJ_GLOBALS) EXCEPT
                   !.cmd_type = CMD_UPDATE,
                   !.return_address = return_address]
        data == GlobalsData(p)
                 \o (IF p.security_token = <<>> THEN <<>>
                     ELSE <<Item(KeySecurityToken,
                                 [t |-> "str", s |-> p.security_token])>>)
    IN  IF data = <<>>
        THEN [err |-> "ValueError", obj |-> o0]
        ELSE [err |-> "none", obj |-> [o0 EXCEPT !.payload = PStr(dumps(data))]]

\* Globals(return_address, payload): the exception raised ("none": returned) and
\* the object as far as __init__ got
Globals(return_address, p) ==
    LET o0 == [_MyceliaObj(OBJ_GLOBALS) EXCEPT
                   !.cmd_type = CMD_UPDATE,
                   !.return_address = return_address]
        d0 == GlobalsData(p)
    IN  IF p.security_token = <<>>
        THEN [err |-> "MissingSecurityTokenError", obj |-> o0]
        ELSE LET data == d0 \o <<Item(KeySecurityToken,
                                     [t |-> "str", s |-> p.security_token])>>
             IN  IF data = <<>>
                 THEN [err |-> "ValueError", obj |-> o0]
                 ELSE [err |-> "none",
                       obj |-> [o0 EXCEPT !.payload = PStr(dumps(data))]]

-----------------------------------------------------------------------------
(* _encode_mycelia_obj(obj), with uuid the string str(uuid.uuid4()) returns.  *)
(* The result records the exception raised ("none": returned), the local      *)
(* bytearray `out` at that point, and the packet returned.                    *)
Raised(e, out) == [err |-> e, out |-> out, packet |-> <<>>]

Returned(out, packet) == [err |-> "none", out |-> out, packet |-> packet]

\* an args check that forgets the Subscriber
needs_args_short == {OBJ_MESSAGE, OBJ_TRANSFORMER}

needs_args == {OBJ_MESSAGE, OBJ_SUBSCRIBER, OBJ_TRANSFORMER}

_encode_mycelia_obj(o, uuid) ==
    IF ~cmd_valid(o) THEN Raised("ValueError: command not permissible", <<>>)
    ELSE
    LET header == Cat(Cat(_u8(Num(o.protocol_version)), _u8(Num(o.obj_type))),
                      _u8(Num(o.cmd_type)))
        tracked == Cat(header, _pstr8(uuid))
    IN
    IF o.return_address = <<>>
    THEN Raised("ValueError: missing sender's address", tracked)
    ELSE
    LET addressed == Cat(tracked, _pstr16(o.return_address))
    IN
    IF o.obj_type \in needs_args /\ o.arg1 = <<>>
    THEN Raised("ValueError: incomplete args", addressed)
    ELSE
    LET args == Cat(Cat(Cat(Cat(addressed, _pstr8(o.arg1)), _pstr8(o.arg2)),
                        _pstr8(o.arg3)), _pstr8(o.arg4))
    IN
    \* obj.payload.encode(...): only a str has .encode
    IF o.payload.kind # "str" THEN Raised("AttributeError", args)
    ELSE
    LET packet_bytes == Cat(args, _pbytes16(encode(o.payload.val)))
    IN  Returned(packet_bytes, Cat(_u32(len(packet_bytes)), packet_bytes))

-----------------------------------------------------------------------------
(* The inputs the callers of the model draw from *)
MaxSets == 1
MaxEncodes == 2

Max8 == 256 - 1
Max16 == Limb - 1
Gib == 256 * 256 * 256 * 64

\* 'a' * k
StrA(k) == Rep(97, k)

\* a str of 4 * 2^30 = 2^32 ASCII characters
Giant == <<[v |-> 97, n |-> Gib], [v |-> 98, n |-> Gib],
           [v |-> 97, n |-> Gib], [v |-> 98, n |-> Gib]>>

\* 'A', 'orders', 'ch', 'hello', 'tok', and 'caf\xe9' (its UTF-8 form is 5 bytes)
StrA1 == FromSeq(<<65>>)
StrOrders == FromSeq(<<111, 114, 100, 101, 114, 115>>)
StrCh == FromSeq(<<99, 104>>)
StrHello == FromSeq(<<104, 101, 108, 108, 111>>)
StrTok == FromSeq(<<116, 111, 107>>)
StrCafe == FromSeq(<<99, 97, 102, 233>>)

\* two of the strings uuid.uuid4() can give, as str() prints them (36 characters)
UuidOf(d) ==
    FromSeq(<<d, d, d, d, d, d, d, d, 45, d, d, d, d, 45, 52, d, d, d, 45,
              56, d, d, d, 45, d, d, d, d, d, d, d, d, d, d, d, d>>)

Uuid4 == {UuidOf(48), UuidOf(49)}

ReturnAddrs == {<<>>, StrA1, StrA(Max16), StrA(Max16 + 1), Giant}
Routes == {<<>>, StrOrders, StrCafe, StrA(Max8 + 1)}
Channels == {<<>>, StrCh}
Addresses == {<<>>, StrA1}
GlobalsAddrs == {<<>>, StrA1}
Arg4s == {StrA(Max8), StrA(Max8 + 1)}
Payloads == {PStr(<<>>), PStr(StrHello), PStr(StrCafe), PStr(StrA(Max16)),
             PStr(StrA(Max16 + 1)), PBytes(encode(StrHello))}
CmdTypes == {CMD_UNKNOWN, CMD_SEND, CMD_ADD, CMD_REMOVE, CMD_UPDATE, CMD_SIGTERM}

GlobalValuesSet ==
    {[GlobalValues EXCEPT !.address = a, !.port = p, !.print_tree = t,
                          !.security_token = k] :
        a \in {<<>>, StrCafe}, p \in {-1, 5500}, t \in {"None", "True"},
        k \in {<<>>, StrTok}}

\* every constructor call: the exception it raised and the object it built
Constructed ==
    {[err |-> "none", obj |-> Message(ra, r, p), gv |-> <<>>] :
        ra \in ReturnAddrs, r \in Routes, p \in Payloads}
    \cup {[err |-> "none", obj |-> Transformer(ra, r, c, a), gv |-> <<>>] :
        ra \in ReturnAddrs, r \in Routes, c \in Channels, a \in Addresses}
    \cup {[err |-> "none", obj |-> Subscriber(ra, r, c, a), gv |-> <<>>] :
        ra \in ReturnAddrs, r \in Routes, c \in Channels, a \in Addresses}
    \cup {[err |-> Globals(ra, g).err, obj |-> Globals(ra, g).obj, gv |-> <<g>>] :
        ra \in GlobalsAddrs, g \in GlobalValuesSet}
    \cup {[err |-> "none", obj |-> Action(ra), gv |-> <<>>] : ra \in ReturnAddrs}

\* recv_exact() has not been called; nothing is on its socket
RxIdle == [pc |-> "idle", n |-> 0, remaining |-> 0, asked |-> 0, got |-> <<>>,
           result |-> <<>>, err |-> "none", orig |-> <<>>, stream |-> <<>>,
           closes |-> FALSE]

\* send() has not been called
SendIdle == [pc |-> "idle", err |-> "none", frame |-> <<>>, ops |-> <<>>,
             written |-> <<>>]

-----------------------------------------------------------------------------
(* The client side: a command is constructed, the caller may assign its     *)
(* public attributes, and _encode_mycelia_obj is called on it.              *)
EncInit ==
    /\ \E c \in Constructed : ctor_err = c.err /\ obj = c.obj /\ gv = c.gv
    /\ sets = 0
    /\ calls = <<>>
    /\ snd = SendIdle
    /\ rx = RxIdle

\* obj.cmd_type = c
SetCmdType(c) ==
    /\ UNCHANGED <<lisVars, netVars>>
    /\ ctor_err = "none"
    /\ sets < MaxSets
    /\ c # obj.cmd_type
    /\ obj' = [obj EXCEPT !.cmd_type = c]
    /\ sets' = sets + 1
    /\ UNCHANGED <<ctor_err, calls, gv, snd, rx>>

\* obj.arg4 = s
SetArg4(s) ==
    /\ UNCHANGED <<lisVars, netVars>>
    /\ ctor_err = "none"
    /\ sets < MaxSets
    /\ s # obj.arg4
    /\ obj' = [obj EXCEPT !.arg4 = s]
    /\ sets' = sets + 1
    /\ UNCHANGED <<ctor_err, calls, gv, snd, rx>>

\* _encode_mycelia_obj(obj), as send() calls it
EncodeObj ==
    /\ UNCHANGED <<lisVars, netVars>>
    /\ ctor_err = "none"
    /\ Len(calls) < MaxEncodes
    /\ \E u \in Uuid4 :
         calls' = Append(calls, [obj |-> obj, uuid |-> u,
                                 res |-> _encode_mycelia_obj(obj, u)])
    /\ UNCHANGED <<ctor_err, obj, sets, gv, snd, rx>>

EncNext ==
    \/ \E c \in CmdTypes : SetCmdType(c)
    \/ \E s \in Arg4s : SetArg4(s)
    \/ EncodeObj

-----------------------------------------------------------------------------
(* send(message, address, port), lines 302-307.  snd.ops is the sequence of  *)
(* socket operations the call has made, snd.written the bytes that sendall   *)
(* has put on the connection.                                                *)

\* a send() that makes its socket and connects before it encodes
SendCall_socket_first ==
    /\ UNCHANGED <<lisVars, netVars>>
    /\ ctor_err = "none"
    /\ snd.pc = "idle"
    /\ \E u \in Uuid4 :
         LET res == _encode_mycelia_obj(obj, u)
         IN  /\ calls' = Append(calls, [obj |-> obj, uuid |-> u, res |-> res])
             /\ snd' = IF res.err # "none"
                       THEN [snd EXCEPT !.pc = "raised", !.err = res.err,
                                        !.ops = <<"socket", "connect", "close">>]
                       ELSE [snd EXCEPT !.pc = "sendall", !.frame = res.packet,
                                        !.ops = <<"socket", "connect">>]
    /\ UNCHANGED <<ctor_err, obj, sets, gv, rx>>

\* line 304: frame = _encode_mycelia_obj(message); its exception leaves send()
SendCall ==
    /\ UNCHANGED <<lisVars, netVars>>
    /\ ctor_err = "none"
    /\ snd.pc = "idle"
    /\ \E u \in Uuid4 :
         LET res == _encode_mycelia_obj(obj, u)
         IN  /\ calls' = Append(calls, [obj |-> obj, uuid |-> u, res |-> res])
             /\ snd' = IF res.err # "none"
                       THEN [snd EXCEPT !.pc = "raised", !.err = res.err]
                       ELSE [snd EXCEPT !.pc = "connect", !.frame = res.packet]
    /\ UNCHANGED <<ctor_err, obj, sets, gv, rx>>

\* lines 305-306: socket.socket(...) and sock.connect((address, port)); when
\* connect fails the with block closes the socket and the OSError leaves send()
SendConnect ==
    /\ UNCHANGED <<lisVars, netVars>>
    /\ snd.pc = "connect"
    /\ \/ snd' = [snd EXCEPT !.pc = "sendall",
                             !.ops = snd.ops \o <<"socket", "connect">>]
       \/ snd' = [snd EXCEPT !.pc = "raised", !.err = "OSError: connect",
                             !.ops = snd.ops \o <<"socket", "connect", "close">>]
    /\ UNCHANGED <<ctor_err, obj, sets, calls, gv, rx>>

\* line 307: sock.sendall(frame); when it fails, a first part of the frame may
\* have been sent, the with block closes the socket and the OSError leaves send()
SendSendall ==
    /\ UNCHANGED <<lisVars, netVars>>
    /\ snd.pc = "sendall"
    /\ \/ snd' = [snd EXCEPT !.pc = "exit", !.written = snd.frame,
                             !.ops = snd.ops \o <<"sendall">>]
       \/ \E k \in {0, 3} :
            snd' = [snd EXCEPT !.pc = "raised", !.err = "OSError: sendall",
                               !.written = Take(snd.frame, k),
                               !.ops = snd.ops \o <<"sendall", "close">>]
    /\ UNCHANGED <<ctor_err, obj, sets, calls, gv, rx>>

\* the end of the with block of line 305 closes the socket; send() returns
SendExit ==
    /\ UNCHANGED <<lisVars, netVars>>
    /\ snd.pc = "exit"
    /\ snd' = [snd EXCEPT !.pc = "returned", !.ops = snd.ops \o <<"close">>]
    /\ UNCHANGED <<ctor_err, obj, sets, calls, gv, rx>>

SendNext ==
    \/ \E c \in CmdTypes : SetCmdType(c)
    \/ \E s \in Arg4s : SetArg4(s)
    \/ SendCall
    \/ SendConnect
    \/ SendSendall
    \/ SendExit

-----------------------------------------------------------------------------
(* MyceliaListener: start(), _listen() and stop(), with the clients that    *)
(* connect to it.  conn.recv(1024) returns the bytes that have arrived, at   *)
(* most 1024 of them; the accepted socket has no timeout (only the listening *)
(* socket is given one, line 401), so recv waits until bytes, the end of the *)
(* stream or an error arrive.                                                *)
MaxConns == 2
MaxSends == 2
MaxStops == 2
MaxStarts == 1
MaxReads == 3

BUFSIZE == 1024

Conns == 1..MaxConns

\* what a client writes: frames that send() makes; the second is longer than
\* one recv buffer
ClientFrames ==
    {_encode_mycelia_obj(Message(StrA1, StrOrders, PStr(StrHello)), UuidOf(48)).packet,
     _encode_mycelia_obj(Message(StrA1, StrOrders, PStr(StrA(BUFSIZE))), UuidOf(49)).packet}

Min(a, b) == IF a < b THEN a ELSE b

\* how many bytes recv(BUFSIZE) can return when the bytes b have been written
\* to the connection: those that have arrived, which is all of them or a first
\* segment, and never more than BUFSIZE
RecvSizes(b) ==
    {Min(NumInt(len(b)), BUFSIZE)} \cup {k \in {3} : k < NumInt(len(b))}

TotalSends == LET RECURSIVE sum(_)
                  sum(c) == IF c = 0 THEN 0 ELSE Len(sent[c]) + sum(c - 1)
              IN  sum(MaxConns)

LisInit ==
    /\ processor \in {"echo", "none"}
    /\ stop_event = FALSE
    /\ server_sock = "None"
    /\ lpc = "idle"
    /\ exc = "none"
    /\ starts = 0
    /\ conn = 0
    /\ result = <<>>
    /\ processed = <<>>
    /\ spc = "idle"
    /\ stops = 0
    /\ stop_in_accept = FALSE
    /\ backlog = <<>>
    /\ cstate = [c \in Conns |-> "new"]
    /\ sent = [c \in Conns |-> <<>>]
    /\ wire = [c \in Conns |-> <<>>]
    /\ peer_closed = [c \in Conns |-> FALSE]
    /\ rst = [c \in Conns |-> FALSE]
    /\ echoed = [c \in Conns |-> <<>>]

\* a start() that clears the stop flag before it listens
Start_clears ==
    /\ UNCHANGED encVars
    /\ lpc \in {"idle", "returned", "raised"}
    /\ starts < MaxStarts
    /\ starts' = starts + 1
    /\ stop_event' = FALSE
    /\ server_sock' = "open"
    /\ backlog' = <<>>
    /\ exc' = "none"
    /\ lpc' = "loop"
    /\ UNCHANGED <<processor, conn, result, processed, spc, stops,
                   stop_in_accept, cstate, sent, wire, peer_closed, rst,
                   echoed>>

\* start() up to the call of _listen: a new listening socket, timeout 1.0
Start ==
    /\ UNCHANGED encVars
    /\ lpc \in {"idle", "returned", "raised"}
    /\ starts < MaxStarts
    /\ starts' = starts + 1
    /\ server_sock' = "open"
    /\ backlog' = <<>>
    /\ exc' = "none"
    /\ lpc' = "loop"
    /\ UNCHANGED <<processor, stop_event, conn, result, processed, spc, stops,
                   stop_in_accept, cstate, sent, wire, peer_closed, rst,
                   echoed>>

\* line 368: while not self._stop_event.is_set(); leaving the loop returns from
\* _listen and from start(), whose `with` closes the listening socket
LoopCheck ==
    /\ UNCHANGED encVars
    /\ lpc = "loop"
    /\ IF stop_event
       THEN lpc' = "returned" /\ server_sock' = "closed"
       ELSE lpc' = "accept" /\ UNCHANGED server_sock
    /\ UNCHANGED <<processor, stop_event, exc, starts, conn, result, processed,
                   spc, stops, stop_in_accept>>
    /\ UNCHANGED netVars

\* what leaves start() when _listen raises: both `with` blocks close their sockets
Raise(e) ==
    /\ lpc' = "raised"
    /\ exc' = e
    /\ server_sock' = "closed"
    /\ conn' = 0

\* line 370: sock.accept() is called; on a socket already closed it fails at once
AcceptCall ==
    /\ UNCHANGED encVars
    /\ lpc = "accept"
    /\ IF server_sock = "closed"
       THEN Raise("OSError: Socket was closed")
       ELSE lpc' = "accept_wait" /\ UNCHANGED <<exc, server_sock, conn>>
    /\ UNCHANGED <<processor, stop_event, starts, result, processed, spc, stops,
                   stop_in_accept>>
    /\ UNCHANGED netVars

\* accept() returns a connection
AcceptConn ==
    /\ UNCHANGED encVars
    /\ lpc = "accept_wait"
    /\ server_sock = "open"
    /\ backlog # <<>>
    /\ conn' = Head(backlog)
    /\ backlog' = Tail(backlog)
    /\ cstate' = [cstate EXCEPT ![Head(backlog)] = "accepted"]
    /\ lpc' = "connloop"
    /\ UNCHANGED <<processor, stop_event, server_sock, exc, starts, result,
                   processed, spc, stops, stop_in_accept, sent, wire, peer_closed, rst, echoed>>

\* lines 371-372: the wait of accept() ends with socket.timeout
AcceptTimeout ==
    /\ UNCHANGED encVars
    /\ lpc = "accept_wait"
    /\ backlog = <<>>
    /\ lpc' = "loop"
    /\ UNCHANGED <<processor, stop_event, server_sock, exc, starts, conn, result,
                   processed, spc, stops, stop_in_accept>>
    /\ UNCHANGED netVars

\* lines 373-374: accept() fails on the listening socket that stop() closed.
\* What a wait that is under way does when its socket is closed is left open by
\* the platform: it runs to its timeout (above) or fails.
AcceptError ==
    /\ UNCHANGED encVars
    /\ lpc = "accept_wait"
    /\ server_sock = "closed"
    /\ Raise("OSError: Socket was closed")
    /\ UNCHANGED <<processor, stop_event, starts, result, processed, spc, stops,
                   stop_in_accept>>
    /\ UNCHANGED netVars

\* lines 375-377: KeyboardInterrupt during accept: _listen returns
AcceptInterrupt ==
    /\ UNCHANGED encVars
    /\ lpc = "accept_wait"
    /\ lpc' = "returned"
    /\ server_sock' = "closed"
    /\ UNCHANGED <<processor, stop_event, exc, starts, conn, result, processed,
                   spc, stops, stop_in_accept>>
    /\ UNCHANGED netVars

\* line 381: while not self._stop_event.is_set(); leaving the loop leaves the
\* `with conn` block, which closes the connection
ConnLoopCheck ==
    /\ UNCHANGED encVars
    /\ lpc = "connloop"
    /\ IF stop_event
       THEN /\ lpc' = "loop"
            /\ cstate' = [cstate EXCEPT ![conn] = "dropped"]
            /\ conn' = 0
       ELSE lpc' = "recv" /\ UNCHANGED <<cstate, conn>>
    /\ UNCHANGED <<processor, stop_event, server_sock, exc, starts, result,
                   processed, spc, stops, stop_in_accept, backlog, sent, wire,
                   peer_closed, rst, echoed>>

\* lines 383-391: recv returns k bytes, and they are handed to the processor
RecvData(k) ==
    /\ UNCHANGED encVars
    /\ lpc = "recv"
    /\ ~rst[conn]
    /\ wire[conn] # <<>>
    /\ Len(processed) < MaxReads
    /\ LET payload == Take(wire[conn], k)
       IN  /\ wire' = [wire EXCEPT ![conn] = Drop(wire[conn], k)]
           /\ processed' = Append(processed, [conn |-> conn, data |-> payload])
           /\ IF processor = "echo"
              THEN result' = payload /\ lpc' = "sendall"
              ELSE result' = <<>> /\ lpc' = "connloop"
    /\ UNCHANGED <<processor, stop_event, server_sock, exc, starts, conn, spc,
                   stops, stop_in_accept, backlog, cstate, sent, peer_closed,
                   rst, echoed>>

\* lines 387-388: recv returns b'' at the end of the stream: break
RecvEof ==
    /\ UNCHANGED encVars
    /\ lpc = "recv"
    /\ ~rst[conn]
    /\ wire[conn] = <<>> /\ peer_closed[conn]
    /\ lpc' = "loop"
    /\ cstate' = [cstate EXCEPT ![conn] = "dropped"]
    /\ conn' = 0
    /\ UNCHANGED <<processor, stop_event, server_sock, exc, starts, result,
                   processed, spc, stops, stop_in_accept, backlog, sent, wire,
                   peer_closed, rst, echoed>>

\* lines 384-385: recv fails with an OSError, which is raised again
RecvError ==
    /\ UNCHANGED encVars
    /\ lpc = "recv"
    /\ rst[conn]
    /\ cstate' = [cstate EXCEPT ![conn] = "dropped"]
    /\ Raise("OSError: Payload buffer overflow.")
    /\ UNCHANGED <<processor, stop_event, starts, result, processed, spc, stops,
                   stop_in_accept, backlog, sent, wire, peer_closed, rst,
                   echoed>>

\* a listener that drops the processor's result without writing it
Sendall_lost ==
    /\ UNCHANGED encVars
    /\ lpc = "sendall"
    /\ lpc' = "connloop"
    /\ UNCHANGED <<processor, stop_event, server_sock, exc, starts, conn, result,
                   processed, spc, stops, stop_in_accept>>
    /\ UNCHANGED netVars

\* a listener that writes the result to the connection next to the one it read
Sendall_cross ==
    /\ UNCHANGED encVars
    /\ lpc = "sendall"
    /\ echoed' = [echoed EXCEPT ![(conn % MaxConns) + 1] = Cat(@, result)]
    /\ lpc' = "connloop"
    /\ UNCHANGED <<processor, stop_event, server_sock, exc, starts, conn, result,
                   processed, spc, stops, stop_in_accept, backlog, cstate, sent,
                   wire, peer_closed, rst>>

\* line 392: conn.sendall(result); its OSError is caught nowhere
Sendall ==
    /\ UNCHANGED encVars
    /\ lpc = "sendall"
    /\ IF rst[conn]
       THEN /\ cstate' = [cstate EXCEPT ![conn] = "dropped"]
            /\ Raise("OSError: sendall")
            /\ UNCHANGED echoed
       ELSE /\ echoed' = [echoed EXCEPT ![conn] = Cat(echoed[conn], result)]
            /\ lpc' = "connloop"
            /\ UNCHANGED <<cstate, exc, server_sock, conn>>
    /\ UNCHANGED <<processor, stop_event, starts, result, processed, spc, stops,
                   stop_in_accept, backlog, sent, wire, peer_closed, rst>>

\* another thread calls stop()
StopCall ==
    /\ UNCHANGED encVars
    /\ spc = "idle"
    /\ stops < MaxStops
    /\ spc' = "set"
    /\ stop_in_accept' = (stop_in_accept \/ lpc = "accept_wait")
    /\ UNCHANGED <<processor, stop_event, server_sock, lpc, exc, starts, conn,
                   result, processed, stops>>
    /\ UNCHANGED netVars

\* line 410: self._stop_event.set()
StopSet ==
    /\ UNCHANGED encVars
    /\ spc = "set"
    /\ stop_event' = TRUE
    /\ spc' = "close"
    /\ UNCHANGED <<processor, server_sock, lpc, exc, starts, conn, result,
                   processed, stops, stop_in_accept>>
    /\ UNCHANGED netVars

\* lines 411-415: if self._server_sock: self._server_sock.close()
StopClose ==
    /\ UNCHANGED encVars
    /\ spc = "close"
    /\ server_sock' = IF server_sock = "None" THEN "None" ELSE "closed"
    /\ spc' = "idle"
    /\ stops' = stops + 1
    /\ UNCHANGED <<processor, stop_event, lpc, exc, starts, conn, result,
                   processed, stop_in_accept>>
    /\ UNCHANGED netVars

\* a client connects to the listening socket
Connect(c) ==
    /\ UNCHANGED encVars
    /\ cstate[c] = "new"
    /\ server_sock = "open"
    /\ backlog' = Append(backlog, c)
    /\ cstate' = [cstate EXCEPT ![c] = "queued"]
    /\ UNCHANGED lisVars
    /\ UNCHANGED <<sent, wire, peer_closed, rst, echoed>>

\* a client writes one frame with sendall
ClientSend(c, f) ==
    /\ UNCHANGED encVars
    /\ cstate[c] \in {"queued", "accepted"}
    /\ ~peer_closed[c] /\ ~rst[c]
    /\ TotalSends < MaxSends
    /\ sent' = [sent EXCEPT ![c] = Append(sent[c], f)]
    /\ wire' = [wire EXCEPT ![c] = Cat(wire[c], f)]
    /\ UNCHANGED lisVars
    /\ UNCHANGED <<backlog, cstate, peer_closed, rst, echoed>>

\* a client closes its end
ClientClose(c) ==
    /\ UNCHANGED encVars
    /\ cstate[c] \in {"queued", "accepted"}
    /\ ~peer_closed[c] /\ ~rst[c]
    /\ peer_closed' = [peer_closed EXCEPT ![c] = TRUE]
    /\ UNCHANGED lisVars
    /\ UNCHANGED <<backlog, cstate, sent, wire, rst, echoed>>

\* the connection fails: the next recv or sendall on it raises an OSError
ConnReset(c) ==
    /\ UNCHANGED encVars
    /\ c = conn
    /\ ~rst[c]
    /\ rst' = [rst EXCEPT ![c] = TRUE]
    /\ UNCHANGED lisVars
    /\ UNCHANGED <<backlog, cstate, sent, wire, peer_closed, echoed>>

\* the steps of the thread in start()
ListenerStep ==
    \/ Start
    \/ LoopCheck
    \/ AcceptCall
    \/ AcceptConn
    \/ AcceptTimeout
    \/ AcceptError
    \/ ConnLoopCheck
    \/ (lpc = "recv" /\ \E k \in RecvSizes(wire[conn]) : RecvData(k))
    \/ RecvEof
    \/ RecvError
    \/ Sendall

StopStep == StopCall \/ StopSet \/ StopClose

ClientStep ==
    \E c \in Conns :
        \/ Connect(c)
        \/ \E f \in ClientFrames : ClientSend(c, f)
        \/ ClientClose(c)
        \/ ConnReset(c)

LisNext == ListenerStep \/ AcceptInterrupt \/ StopStep \/ ClientStep

-----------------------------------------------------------------------------
vars == <<ctor_err, obj, sets, calls, gv, snd, rx, processor, stop_event, server_sock, lpc,
          exc, starts, conn, result, processed, spc, stops, stop_in_accept,
          backlog, cstate, sent, wire, peer_closed, rst, echoed>>

\* the encoder's callers, beside a listener that is constructed and not started
Init == EncInit /\ LisInit /\ processor = "echo"

Next == EncNext

Spec == Init /\ [][Next]_vars

\* the listener, its stopper and its clients, beside one command never encoded
ListenerInit ==
    /\ LisInit
    /\ ctor_err = "none"
    /\ obj = Message(StrA1, StrOrders, PStr(StrHello))
    /\ sets = 0
    /\ calls = <<>>
    /\ gv = <<>>
    /\ snd = SendIdle
    /\ rx = RxIdle

ListenerNext == LisNext

ListenerSpec == ListenerInit /\ [][ListenerNext]_vars

\* a caller of send(), beside a listener that is constructed and not started
SendSpec == Init /\ [][SendNext]_vars

-----------------------------------------------------------------------------
(* recv_exact(sock, n), src/mycelia/_decode.py lines 11-21.  rx.stream is    *)
(* what the peer has still to deliver on the socket, rx.closes whether the   *)
(* peer closes after it, rx.got the chunks appended so far, joined.          *)

\* the n of the calls, and the numbers of bytes one recv can deliver
RxNs == {0, 2, 4, 7}
RxSizes == {1, 2, 3, 4, 7, 9}

\* what a peer sends: nothing, or the first 3, 7 or 9 bytes of a frame
RxFrame == _encode_mycelia_obj(Message(StrA1, StrOrders, PStr(StrHello)), UuidOf(48)).packet
RxStreams == {<<>>, Take(RxFrame, 3), Take(RxFrame, 7), Take(RxFrame, 9)}

RxInit ==
    \E n \in RxNs, b \in RxStreams, cl \in BOOLEAN :
        rx = [RxIdle EXCEPT !.n = n, !.orig = b, !.stream = b, !.closes = cl]

\* lines 13-14: chunks = []; remaining = n
RxCall ==
    /\ rx.pc = "idle"
    /\ rx' = [rx EXCEPT !.pc = "loop", !.remaining = rx.n, !.got = <<>>]
    /\ UNCHANGED <<ctor_err, obj, sets, calls, gv, snd>>
    /\ UNCHANGED <<lisVars, netVars>>

\* line 15: while remaining > 0; line 21: return b''.join(chunks)
RxLoopTest ==
    /\ rx.pc = "loop"
    /\ rx' = IF rx.remaining > 0
             THEN [rx EXCEPT !.pc = "recv", !.asked = rx.remaining]
             ELSE [rx EXCEPT !.pc = "returned", !.result = rx.got]
    /\ UNCHANGED <<ctor_err, obj, sets, calls, gv, snd>>
    /\ UNCHANGED <<lisVars, netVars>>

\* a recv_exact that asks for a full buffer on every recv
RxRecv_bufsize(k) ==
    /\ rx.pc = "recv"
    /\ k <= BUFSIZE /\ k <= NumInt(len(rx.stream))
    /\ rx' = [rx EXCEPT !.pc = "loop",
                        !.asked = BUFSIZE,
                        !.got = Cat(rx.got, Take(rx.stream, k)),
                        !.stream = Drop(rx.stream, k),
                        !.remaining = rx.remaining - k]
    /\ UNCHANGED <<ctor_err, obj, sets, calls, gv, snd>>
    /\ UNCHANGED <<lisVars, netVars>>

\* lines 16-20: chunk = sock.recv(remaining) returns k bytes, 1 <= k <= remaining;
\* chunks.append(chunk); remaining -= len(chunk)
RxRecv(k) ==
    /\ rx.pc = "recv"
    /\ k <= rx.asked /\ k <= NumInt(len(rx.stream))
    /\ rx' = [rx EXCEPT !.pc = "loop",
                        !.got = Cat(rx.got, Take(rx.stream, k)),
                        !.stream = Drop(rx.stream, k),
                        !.remaining = rx.remaining - k]
    /\ UNCHANGED <<ctor_err, obj, sets, calls, gv, snd>>
    /\ UNCHANGED <<lisVars, netVars>>

\* lines 17-18: recv returns b'' because the peer has closed: ConnectionError
RxEof ==
    /\ rx.pc = "recv"
    /\ rx.stream = <<>> /\ rx.closes
    /\ rx' = [rx EXCEPT !.pc = "raised", !.err = "ConnectionError"]
    /\ UNCHANGED <<ctor_err, obj, sets, calls, gv, snd>>
    /\ UNCHANGED <<lisVars, netVars>>

RxNext ==
    \/ RxCall
    \/ RxLoopTest
    \/ \E k \in RxSizes : RxRecv(k)
    \/ RxEof

\* a caller of recv_exact, beside one command and a listener that do nothing
RecvExactInit ==
    /\ LisInit /\ processor = "echo"
    /\ ctor_err = "none"
    /\ obj = Message(StrA1, StrOrders, PStr(StrHello))
    /\ sets = 0
    /\ calls = <<>>
    /\ gv = <<>>
    /\ snd = SendIdle
    /\ RxInit

\* the thread in recv_exact always gets to run
RecvExactSpec == RecvExactInit /\ [][RxNext]_vars /\ WF_vars(RxNext)

-----------------------------------------------------------------------------
(* Reading a frame back, field by field, by the wire layout of the encoder:  *)
(* u32 length, u8 version, u8 obj_type, u8 cmd_type, then the length-        *)
(* prefixed fields.                                                          *)
\* byte number i (from 1) of b, or -1 past its end
ByteAt(b, i) == IF Drop(b, i - 1) = <<>> THEN -1 ELSE Head(Drop(b, i - 1)).v

\* the big-endian unsigned integer in the first w bytes of b (w <= 4)
ReadUInt(b, w) ==
    LET at(i) == IF i > 4 - w THEN ByteAt(b, i - (4 - w)) ELSE 0
    IN  [hi |-> at(1) * 256 + at(2), lo |-> at(3) * 256 + at(4)]

\* one field with a w-byte length prefix at the start of b
ReadField(b, w) ==
    LET k == ReadUInt(b, w)
        body == Drop(b, w)
    IN  [ok |-> ByteAt(b, w) # -1 /\ k.hi = 0 /\ NumLeq(k, len(body)),
         val |-> Take(body, k.lo),
         rest |-> Drop(body, k.lo)]

RECURSIVE ReadFields(_, _)
\* the fields whose prefix widths are ws, one after the other
ReadFields(b, ws) ==
    IF ws = <<>> THEN [ok |-> TRUE, vals |-> <<>>, rest |-> b]
    ELSE LET f == ReadField(b, Head(ws))
             g == ReadFields(f.rest, Tail(ws))
         IN  [ok |-> f.ok /\ g.ok, vals |-> <<f.val>> \o g.vals, rest |-> g.rest]

\* the prefix widths of correlation id, return_address, arg1..arg4, payload
FieldWidths == <<1, 2, 1, 1, 1, 1, 2>>

ParseFrame(packet) ==
    LET body == Drop(packet, 4)
        f == ReadFields(Drop(body, 3), FieldWidths)
    IN  [ok |-> ByteAt(packet, 7) # -1 /\ f.ok,
         length |-> ReadUInt(packet, 4),
         following |-> len(body),
         protocol_version |-> ByteAt(body, 1),
         obj_type |-> ByteAt(body, 2),
         cmd_type |-> ByteAt(body, 3),
         correlation_id |-> f.vals[1],
         return_address |-> f.vals[2],
         arg1 |-> f.vals[3], arg2 |-> f.vals[4],
         arg3 |-> f.vals[5], arg4 |-> f.vals[6],
         payload |-> f.vals[7],
         rest |-> f.rest]

Accepted(c) == c.res.err = "none"

CallIds == 1..Len(calls)

-----------------------------------------------------------------------------
(* C1: for every command the encoder accepts, the first 4 bytes of the      *)
(* returned frame, read as a big-endian unsigned 32-bit integer, equal the   *)
(* number of bytes that follow them in the frame.                            *)
C1_LengthPrefixExact ==
    \A i \in CallIds :
        Accepted(calls[i]) =>
            ReadUInt(calls[i].res.packet, 4) = len(Drop(calls[i].res.packet, 4))

(* C2: encoding succeeds only when cmd_type is in the legal set of the      *)
(* command's obj_type; for every other pair, UNKNOWN included, the encoder   *)
(* fails before any byte of the frame is produced.                           *)
LegalCmds(t) ==
    CASE t = OBJ_MESSAGE -> {CMD_SEND}
      [] t = OBJ_TRANSFORMER -> {CMD_ADD, CMD_REMOVE}
      [] t = OBJ_SUBSCRIBER -> {CMD_ADD, CMD_REMOVE}
      [] t = OBJ_GLOBALS -> {CMD_UPDATE}
      [] t = OBJ_ACTION -> {CMD_SIGTERM}

C2_IllegalCmdRejectedFirst ==
    \A i \in CallIds :
        LET c == calls[i]
        IN  /\ Accepted(c) => c.obj.cmd_type \in LegalCmds(c.obj.obj_type)
            /\ c.obj.cmd_type \notin LegalCmds(c.obj.obj_type) =>
                   ~Accepted(c) /\ c.res.out = <<>> /\ c.res.packet = <<>>

\* an illegal command was rejected and, after the caller fixed cmd_type, accepted
C2_Witness ==
    /\ Len(calls) = 2
    /\ calls[1].obj.cmd_type \notin LegalCmds(calls[1].obj.obj_type)
    /\ ~Accepted(calls[1])
    /\ Accepted(calls[2])

(* C3: encoding is rejected, and no frame is returned, for every command    *)
(* whose return_address is empty and for every MESSAGE, SUBSCRIBER or        *)
(* TRANSFORMER command whose arg1 is empty, whatever the other fields hold.  *)
C3_EmptyAddressOrRouteRejected ==
    \A i \in CallIds :
        LET c == calls[i]
        IN  (\/ c.obj.return_address = <<>>
             \/ /\ c.obj.obj_type \in {OBJ_MESSAGE, OBJ_SUBSCRIBER, OBJ_TRANSFORMER}
                /\ c.obj.arg1 = <<>>)
            => ~Accepted(c) /\ c.res.packet = <<>>

\* a Subscriber with a legal cmd_type and a return_address was rejected for
\* its empty route alone
C3_Witness ==
    \E i \in CallIds :
        /\ calls[i].obj.obj_type = OBJ_SUBSCRIBER
        /\ cmd_valid(calls[i].obj)
        /\ calls[i].obj.return_address # <<>>
        /\ calls[i].obj.arg1 = <<>>
        /\ calls[i].res.err = "ValueError: incomplete args"

(* C4: a string field whose UTF-8 length is exactly the maximum of its      *)
(* length prefix (255 for the correlation id and arg1..arg4, 65535 for       *)
(* return_address and payload) encodes successfully, and a field one byte    *)
(* longer makes encoding fail instead of producing a frame.                  *)
Fits(s, w) == NumLeq(len(encode(s)), Num(IF w = 1 THEN Max8 ELSE Max16))

AtMax(s, w) == len(encode(s)) = Num(IF w = 1 THEN Max8 ELSE Max16)

\* the str fields of a call with their prefix widths (a bytes payload has none)
StrFields(c) ==
    <<<<c.uuid, 1>>, <<c.obj.return_address, 2>>, <<c.obj.arg1, 1>>,
      <<c.obj.arg2, 1>>, <<c.obj.arg3, 1>>, <<c.obj.arg4, 1>>>>
    \o (IF c.obj.payload.kind = "str" THEN <<<<c.obj.payload.val, 2>>>> ELSE <<>>)

AllFit(c) == \A k \in DOMAIN StrFields(c) : Fits(StrFields(c)[k][1], StrFields(c)[k][2])

\* nothing but field lengths can make the encoder reject the call
OtherwiseValid(c) ==
    /\ cmd_valid(c.obj)
    /\ c.obj.return_address # <<>>
    /\ c.obj.obj_type \in needs_args => c.obj.arg1 # <<>>
    /\ c.obj.payload.kind = "str"

C4_WidthBoundary ==
    \A i \in CallIds :
        LET c == calls[i]
        IN  /\ (OtherwiseValid(c) /\ AllFit(c)) => Accepted(c)
            /\ ~AllFit(c) => ~Accepted(c)

(* C5: encoding the same command object twice yields two frames that carry  *)
(* the same correlation id and are byte-for-byte identical.                  *)
C5_EncodeTwiceIdentical ==
    (/\ Len(calls) = 2
     /\ calls[1].obj = calls[2].obj
     /\ Accepted(calls[1]) /\ Accepted(calls[2]))
    => /\ ParseFrame(calls[1].res.packet).correlation_id
              = ParseFrame(calls[2].res.packet).correlation_id
       /\ calls[1].res.packet = calls[2].res.packet

(* C6: round trip.  For every command the encoder accepts, parsing the      *)
(* returned frame by the wire layout consumes the frame exactly and recovers *)
(* protocol_version, obj_type, cmd_type, return_address, arg1..arg4 and the  *)
(* payload of the command.                                                   *)
C6_RoundTrip ==
    \A i \in CallIds :
        Accepted(calls[i]) =>
            LET o == calls[i].obj
                p == ParseFrame(calls[i].res.packet)
            IN  /\ p.ok /\ p.rest = <<>> /\ p.length = p.following
                /\ p.protocol_version = o.protocol_version
                /\ p.obj_type = o.obj_type
                /\ p.cmd_type = o.cmd_type
                /\ p.return_address = encode(o.return_address)
                /\ p.arg1 = encode(o.arg1) /\ p.arg2 = encode(o.arg2)
                /\ p.arg3 = encode(o.arg3) /\ p.arg4 = encode(o.arg4)
                /\ p.payload = encode(o.payload.val)

-----------------------------------------------------------------------------
ListenerDone == lpc \in {"returned", "raised"}

(* C7: if stop() is called from another thread while start() is blocked     *)
(* waiting in accept, start() returns normally, with no exception leaving    *)
(* start(), in every interleaving of stop() with the accept loop; a second   *)
(* stop() afterwards changes no state.                                       *)
C7_StopDuringAcceptReturnsNormally ==
    /\ [](stop_in_accept => lpc # "raised")
    /\ [][(stop_in_accept /\ stops >= 1 /\ (StopSet \/ StopClose))
             => UNCHANGED <<stop_event, server_sock>>]_vars

(* C8: a socket error while reading from an established connection ends     *)
(* only that connection: no exception leaves start(), and the listener goes  *)
(* on to accept later connections.                                           *)
C8_ReadErrorEndsOnlyConnection ==
    [][(lpc = "recv" /\ rst[conn] /\ lpc' # lpc)
          => (lpc' = "loop" /\ exc' = "none")]_vars

(* C9: after stop() has been called, start() eventually returns even when a  *)
(* connection is established and its peer neither sends data nor closes: in  *)
(* no state after a stop() is the thread in start() left without a step that *)
(* it can take on its own.                                                   *)
C9_StopObservedWhilePeerSilent ==
    stops >= 1 => (lpc = "idle" \/ ListenerDone \/ ENABLED ListenerStep)

(* C10: every invocation of the message processor receives the bytes of      *)
(* exactly one complete frame, in arrival order, however the stream splits   *)
(* or coalesces the sender's writes.                                         *)
ProcessedOf(c) == SelectSeq(processed, LAMBDA e : e.conn = c)

C10_ProcessorGetsWholeFrames ==
    \A c \in Conns :
        /\ Len(ProcessedOf(c)) <= Len(sent[c])
        /\ \A i \in 1..Len(ProcessedOf(c)) : ProcessedOf(c)[i].data = sent[c][i]

-----------------------------------------------------------------------------
\* the bytes of a sequence of reads or writes, joined in order
RECURSIVE Joined(_)
Joined(q) == IF q = <<>> THEN <<>> ELSE Cat(Head(q), Joined(Tail(q)))

\* what recv has returned on connection c, read by read
ReadsOf(c) == [i \in 1..Len(ProcessedOf(c)) |-> ProcessedOf(c)[i].data]

(* C11: with a processor that returns its input, on every connection the    *)
(* bytes written back, in write order, equal the bytes read from that        *)
(* connection, in read order, and the response to each read is written       *)
(* before the next read on the connection starts.  Only the read that is     *)
(* being answered, or one whose write failed because the connection broke,   *)
(* has no response.                                                          *)
C11_EchoWritesWhatItRead ==
    processor = "echo" =>
        \A c \in Conns :
            LET reads == ReadsOf(c)
                n == Len(reads)
                answered == Joined(SubSeq(reads, 1, n - 1))
            IN  IF lpc = "sendall" /\ conn = c
                THEN n >= 1 /\ result = reads[n] /\ echoed[c] = answered
                ELSE \/ echoed[c] = Joined(reads)
                     \/ /\ n >= 1 /\ rst[c] /\ conn # c
                        /\ echoed[c] = answered

\* two reads on one connection have been answered and a third read is starting
C11_Witness ==
    /\ processor = "echo"
    /\ lpc = "recv"
    /\ Len(ReadsOf(conn)) >= 2
    /\ echoed[conn] = Joined(ReadsOf(conn))

(* C12: when two clients have connections open at the same time, every byte *)
(* the listener writes to a connection is part of the processor's result     *)
(* for data read from that same connection, and so of that client's own      *)
(* stream: no connection receives bytes produced for the other one.          *)
C12_NoCrossConnectionBytes ==
    \A c \in Conns :
        LET reads == ReadsOf(c)
        IN  /\ Joined(sent[c]) = Cat(Joined(reads), wire[c])
            /\ IF processor = "echo"
               THEN \E k \in 0..Len(reads) : echoed[c] = Joined(SubSeq(reads, 1, k))
               ELSE echoed[c] = <<>>

\* one client is being served and has had bytes echoed while another client,
\* whose stream is different, has connected and sent
C12_Witness ==
    \E c, d \in Conns :
        /\ c # d
        /\ cstate[c] = "accepted" /\ conn = c /\ echoed[c] # <<>>
        /\ cstate[d] = "queued" /\ wire[d] # <<>>
        /\ Head(sent[c]) # Head(sent[d])

(* C13: a slow peer does not block the accept loop.  While one accepted     *)
(* connection is open and its peer sends nothing, a second client that has   *)
(* connected and sent data is accepted and served without waiting for the    *)
(* first: the thread in start() always has a step it can take by itself.     *)
C13_SlowPeerDoesNotBlockAccept ==
    \A d \in Conns :
        (/\ cstate[d] = "queued" /\ wire[d] # <<>>
         /\ ~stop_event /\ spc = "idle"
         /\ lpc \notin {"idle", "returned", "raised"})
        => ENABLED ListenerStep

-----------------------------------------------------------------------------
\* the socket operations of a send() that returns, in order
SendOps == <<"socket", "connect", "sendall", "close">>

(* C14: send() encodes the whole frame in memory before it opens any        *)
(* socket.  When encoding fails no socket is made, no connection is opened   *)
(* and no byte is transmitted.  When encoding succeeds send() makes one      *)
(* socket and one connect call and never a second (no retry), reads nothing, *)
(* writes nothing but the encoded frame, and when it returns exactly one     *)
(* connection was opened and the whole frame was written to it.              *)
C14_SendEncodesBeforeSocket ==
    LET called == snd.pc # "idle"
        encoded == called /\ Accepted(calls[Len(calls)])
    IN  /\ ~called => snd.ops = <<>> /\ snd.written = <<>>
        /\ (called /\ ~encoded) =>
               /\ snd.pc = "raised" /\ snd.err = calls[Len(calls)].res.err
               /\ snd.ops = <<>> /\ snd.written = <<>>
        /\ encoded =>
               /\ snd.frame = calls[Len(calls)].res.packet
               /\ \/ \E k \in 0..Len(SendOps) : snd.ops = SubSeq(SendOps, 1, k)
                  \/ snd.pc = "raised" /\ snd.ops = <<"socket", "connect", "close">>
               /\ snd.written # <<>> =>
                      /\ Len(snd.ops) >= 3 /\ snd.ops[3] = "sendall"
                      /\ \/ snd.written = snd.frame
                         \/ snd.pc = "raised" /\ snd.written = Take(snd.frame, 3)
               /\ snd.pc = "returned" =>
                      snd.ops = SendOps /\ snd.written = snd.frame

\* send() has returned after it wrote a frame
C14_Witness ==
    /\ snd.pc = "returned"
    /\ snd.written # <<>>
    /\ snd.written = calls[Len(calls)].res.packet

-----------------------------------------------------------------------------
\* the end of the JSON text of a dict whose last item is the security token
TokenItem(tok) ==
    Cat(Cat(Cat(JsonStr(FromSeq(KeySecurityToken)), FromSeq(<<58, 32>>)),
            JsonStr(tok)),
        Rep(125, 1))

\* s.endswith(t) for a non-empty t: the last runs of s are the runs of t, the
\* first of them possibly longer in s
EndsWith(s, t) ==
    /\ Len(t) <= Len(s)
    /\ SubSeq(s, Len(s) - Len(t) + 2, Len(s)) = Tail(t)
    /\ s[Len(s) - Len(t) + 1].v = t[1].v
    /\ s[Len(s) - Len(t) + 1].n >= t[1].n

CarriesToken(o, tok) ==
    /\ tok # <<>>
    /\ o.payload.kind = "str"
    /\ EndsWith(o.payload.val, TokenItem(tok))

(* C15: constructing a Globals command from a GlobalValues whose            *)
(* security_token is empty fails with MissingSecurityTokenError, whatever    *)
(* the other fields hold, so no Globals command without a token reaches the  *)
(* encoder; every Globals command that is constructed carries the token in   *)
(* its payload.                                                              *)
C15_GlobalsNeedsToken ==
    /\ gv # <<>> =>
           /\ (gv[1].security_token = <<>>) <=> (ctor_err = "MissingSecurityTokenError")
           /\ ctor_err = "none" => CarriesToken(obj, gv[1].security_token)
    /\ ctor_err # "none" => calls = <<>>
    /\ \A i \in CallIds :
           calls[i].obj.obj_type = OBJ_GLOBALS =>
               gv # <<>> /\ CarriesToken(calls[i].obj, gv[1].security_token)

\* Globals(...) was given a GlobalValues with other fields set and no token
C15_Witness ==
    /\ gv # <<>>
    /\ gv[1].security_token = <<>>
    /\ gv[1].address # <<>> /\ gv[1].port # -1
    /\ ctor_err = "MissingSecurityTokenError"

(* C16: constructing a Globals command from a GlobalValues in which no      *)
(* recognized field is set fails with the empty-update error (the ValueError *)
(* of line 201), an error kind distinct from the missing-security-token      *)
(* error.                                                                    *)
NoFieldSet(p) == GlobalsData(p) = <<>> /\ p.security_token = <<>>

C16_EmptyUpdateError ==
    (gv # <<>> /\ NoFieldSet(gv[1])) => ctor_err = "ValueError"

(* C17: a Message whose payload is of a documented payload kind (str, bytes, *)
(* bytearray, memoryview), with non-empty return_address and route, encodes  *)
(* successfully, and the payload field of the frame holds exactly the        *)
(* payload's bytes (the UTF-8 encoding for a str).  Stated for commands      *)
(* whose fields all fit their length prefixes.                               *)
PayloadBytes(p) == IF p.kind = "str" THEN encode(p.val) ELSE p.val

C17_DocumentedPayloadKindsEncode ==
    \A i \in CallIds :
        LET c == calls[i]
        IN  (/\ c.obj.obj_type = OBJ_MESSAGE /\ c.obj.cmd_type = CMD_SEND
             /\ c.obj.return_address # <<>> /\ c.obj.arg1 # <<>>
             /\ c.obj.payload.kind \in {"str", "bytes"}
             /\ AllFit(c))
            => /\ Accepted(c)
               /\ ParseFrame(c.res.packet).payload = PayloadBytes(c.obj.payload)

(* C20: a command as returned by the Message, Transformer, Subscriber or    *)
(* Globals constructor has a cmd_type in the legal set of its obj_type; an   *)
(* Action as returned by its constructor has cmd_type UNKNOWN, so encoding   *)
(* it fails until the caller assigns cmd_type = SIGTERM; after that, with a  *)
(* non-empty return_address, it encodes successfully.                        *)
C20_ActionNeedsCmdAssigned ==
    /\ (ctor_err = "none" /\ sets = 0) =>
           IF obj.obj_type = OBJ_ACTION
           THEN obj.cmd_type = CMD_UNKNOWN
           ELSE obj.cmd_type \in LegalCmds(obj.obj_type)
    /\ \A i \in CallIds :
           LET c == calls[i]
           IN  c.obj.obj_type = OBJ_ACTION =>
                   /\ c.obj.cmd_type # CMD_SIGTERM =>
                          c.res.err = "ValueError: command not permissible"
                   /\ (c.obj.cmd_type = CMD_SIGTERM /\ c.obj.return_address # <<>>)
                          => Accepted(c)

\* an Action was rejected as constructed and accepted after cmd_type = SIGTERM
C20_Witness ==
    /\ Len(calls) = 2
    /\ calls[1].obj.obj_type = OBJ_ACTION
    /\ calls[1].obj.cmd_type = CMD_UNKNOWN /\ ~Accepted(calls[1])
    /\ calls[2].obj.cmd_type = CMD_SIGTERM /\ Accepted(calls[2])

-----------------------------------------------------------------------------
\* recv waits on a peer that has sent all it sends and does not close
RxBlocked == rx.pc = "recv" /\ rx.stream = <<>> /\ ~rx.closes

RxDone == rx.pc \in {"returned", "raised"}

(* C18: recv_exact(sock, n), for every n >= 0 and every way the stream       *)
(* delivers its bytes in non-empty chunks: the loop terminates and returns   *)
(* exactly the next n bytes of the stream in order; no recv asks for more    *)
(* than the bytes still missing, so no byte after the n-th is consumed; if   *)
(* the peer closes before n bytes have arrived it raises ConnectionError and *)
(* returns no short result.                                                  *)
C18_RecvExact ==
    /\ [](rx.pc # "idle" =>
            /\ rx.remaining >= 0
            /\ NumInt(len(rx.got)) + rx.remaining = rx.n
            /\ Cat(rx.got, rx.stream) = rx.orig
            /\ rx.pc = "recv" => rx.asked = rx.n - NumInt(len(rx.got)))
    /\ [](rx.pc = "returned" =>
            /\ rx.result = Take(rx.orig, rx.n)
            /\ len(rx.result) = Num(rx.n)
            /\ rx.stream = Drop(rx.orig, rx.n))
    /\ [](rx.pc = "raised" =>
            /\ rx.err = "ConnectionError" /\ rx.result = <<>>
            /\ rx.closes /\ NumInt(len(rx.orig)) < rx.n)
    /\ [](rx.pc = "returned" => NumInt(len(rx.orig)) >= rx.n)
    /\ <>(RxDone \/ RxBlocked)

\* recv_exact returned the first four bytes and left the rest on the socket
C18_Witness ==
    /\ rx.pc = "returned"
    /\ rx.n = 4
    /\ rx.result = Take(RxFrame, 4)
    /\ rx.stream # <<>>

=============================================================================
